---- MODULE Spec2Model ----
(***************************************************************************)
(* Model of the sipgateio-google-deployer setup wizard: template parsing   *)
(* (extractQuestions / composeQuestion), the configuration store           *)
(* (extractEnv / loadConfig / buildEnv), column alignment (calculateTabs), *)
(* the confirm/overwrite wizard (interactivelyGenerateConfig), the         *)
(* validated selectors (selectGCPRegion, selectGoogleCloudProject,         *)
(* selectSipgateIOProject), startCLI in its two versions with              *)
(* gCloudAuthentification and gCloudCloneGitRepository, and                *)
(* selectLocalProject.                                                     *)
(*                                                                         *)
(* A JavaScript string is a sequence of one-character strings.  A few      *)
(* characters that TLA+ cannot write are tokens: "ESC" is \x1B and "GEAR"  *)
(* is the gear sign U+2699.                                               *)
(***************************************************************************)
EXTENDS Integers, Sequences, FiniteSets, TLC

VARIABLES
    \* template parser
    tplText,      \* raw template text handed to the parser
    envQuestions, \* the questions extractQuestions returned
    parsePc,      \* "idle" | "ready" | "done"
    \* configuration store round trip
    cfgIn,        \* the Config handed to save
    cfgText,      \* the text save produced
    cfgOut,       \* the Config load returned
    storePc,      \* "idle" | "ready" | "saved" | "loaded"
    \* column aligner
    tabNames,     \* the names handed to calculateTabs
    tabCounts,    \* its result
    tabPc,        \* "idle" | "ready" | "done"
    \* confirm/overwrite wizard (interactivelyGenerateConfig)
    wzTemplate,   \* the template lines readExampleConfig returns
    files,        \* the file system: path -> [exists, content]
    wzPc,         \* the prompt the wizard waits at, or "done"
    wzPass,       \* the number of the current pass (invocation), from 1
    wzQuestions,  \* envQuestions of the current pass
    wzIdx,        \* the index of the question being asked
    wzAnswers,    \* envVarValues of the current pass
    wzFilename,   \* filename of the current pass
    wzConfirm,    \* confirm of the current pass
    wzLastEvent,  \* history: the user's last response
    wzWrites,     \* history: writeFileSync calls of this run
    wzWarnings,   \* history: console.warn calls of this run
    wzResult,     \* the Config the run returned
    \* validated selectors (selectGCPRegion, selectGoogleCloudProject,
    \* selectSipgateIOProject)
    selFn,        \* the selector that runs: "region" | "gcp" | "sipgate"
    selPc,        \* what the run waits for, or "done" | "error"
    selConfig,    \* the configured value of the selector's key, or Undefined
    selStdout,    \* what the listing command prints when it succeeds
    selCatalog,   \* what getProjectList returns when it succeeds
    selName,      \* the name in hand: accepted, entered or picked
    selWarnings,  \* history: "[WARN] Invalid ..." warnings
    selLogged,    \* history: logUsedConfig was called
    selPrompted,  \* history: the interactive prompt was shown
    selCreated,   \* history: project creation "no" | "ok" | "failed"
    selFailed,    \* history: the command that failed, or "none"
    selResult,    \* the value the selector returned, or Undefined
    \* startCLI (both versions) with gCloudAuthentification and
    \* gCloudCloneGitRepository
    cliVersion,   \* the version of startCLI that runs: "part_000" | "part_001"
    cliPc,        \* what startCLI waits for, or "returned" | "error"
    cliCatalog,   \* githubProjects (part_000), once fetched
    cliQuery,     \* the text in the search field of the example prompt
    cliOffered,   \* the choices its source returned for cliQuery
    cliSelected,  \* selectedProjectAnswers.selectedProject
    cliQuestions, \* envQuestions
    cliIdx,       \* the index of the question being asked
    cliAnswers,   \* envVarValues
    authCalls,    \* history: invocations of gCloudAuthentification so far
    authPc,       \* the latest invocation: "idle" | "login" | "confirm" | "returned"
    authResult,   \* what the invocation startCLI awaits returned, or "none"
    authLogins,   \* history: gcloud auth login commands that succeeded
    authDeclined, \* history: the user declined a retry
    cliCloned,    \* gCloudCloneGitRepository: "no" | "started" | "ok" | "failed"
    \* selectLocalProject
    locFrames,    \* the call stack: one frame per invocation still running
    locEntered,   \* history: every path the user entered, in order
    locWarnings,  \* history: warnings and "Invalid Repository" messages
    locPrompts,   \* history: prompts shown
    locResult     \* what the first invocation returned, or Undefined

parseVars == <<tplText, envQuestions, parsePc>>
storeVars == <<cfgIn, cfgText, cfgOut, storePc>>
tabVars   == <<tabNames, tabCounts, tabPc>>
wizVars   == <<wzTemplate, files, wzPc, wzPass, wzQuestions, wzIdx, wzAnswers,
               wzFilename, wzConfirm, wzLastEvent, wzWrites, wzWarnings,
               wzResult>>
selVars   == <<selFn, selPc, selConfig, selStdout, selCatalog, selName,
               selWarnings, selLogged, selPrompted, selCreated, selFailed,
               selResult>>
cliVars   == <<cliVersion, cliPc, cliCatalog, cliQuery, cliOffered,
               cliSelected, cliQuestions, cliIdx, cliAnswers, authCalls,
               authPc, authResult, authLogins, authDeclined, cliCloned>>
locVars   == <<locFrames, locEntered, locWarnings, locPrompts, locResult>>
vars == <<parseVars, storeVars, tabVars, wizVars, selVars, cliVars, locVars>>

\* What each specification leaves alone.
notParse == <<storeVars, tabVars, wizVars, selVars, cliVars, locVars>>
notStore == <<parseVars, tabVars, wizVars, selVars, cliVars, locVars>>
notTabs  == <<parseVars, storeVars, wizVars, selVars, cliVars, locVars>>
notWiz   == <<parseVars, storeVars, tabVars, selVars, cliVars, locVars>>
notSel   == <<parseVars, storeVars, tabVars, wizVars, cliVars, locVars>>
notCli   == <<parseVars, storeVars, tabVars, wizVars, selVars, locVars>>
notLoc   == <<parseVars, storeVars, tabVars, wizVars, selVars, cliVars>>

(***************************************************************************)
(* JavaScript string primitives                                            *)
(***************************************************************************)

\* The whitespace String.prototype.trim removes (the part of it the model's
\* alphabets can produce).
IsWhiteSpace(c) == c \in {" ", "\n", "\t"}

RECURSIVE trimStart(_)
trimStart(s) ==
    IF s # <<>> /\ IsWhiteSpace(Head(s)) THEN trimStart(Tail(s)) ELSE s

RECURSIVE trimEnd(_)
trimEnd(s) ==
    IF s # <<>> /\ IsWhiteSpace(s[Len(s)])
    THEN trimEnd(SubSeq(s, 1, Len(s) - 1))
    ELSE s

\* String.prototype.trim
trim(s) == trimEnd(trimStart(s))

\* String.prototype.indexOf for a one-character needle: 0-based, -1 if absent.
indexOf(s, c) ==
    IF \E i \in 1..Len(s) : s[i] = c
    THEN (CHOOSE i \in 1..Len(s) : s[i] = c /\ \A j \in 1..(i - 1) : s[j] # c) - 1
    ELSE -1

\* String.prototype.slice(from, to): negative indices count from the end,
\* both are clamped to 0..length.
sliceIndex(s, k) ==
    IF k < 0 THEN (IF Len(s) + k < 0 THEN 0 ELSE Len(s) + k)
    ELSE IF k > Len(s) THEN Len(s) ELSE k

slice(s, from, to) == SubSeq(s, sliceIndex(s, from) + 1, sliceIndex(s, to))

\* String.prototype.startsWith for a one-character prefix.
startsWith(s, c) == s # <<>> /\ Head(s) = c

\* String.prototype.includes: t occurs in s as a contiguous substring.
includes(s, t) ==
    \E i \in 0..(Len(s) - Len(t)) : SubSeq(s, i + 1, i + Len(t)) = t

\* String.prototype.split('\n') (any one-character separator): the pieces
\* between separators; the empty string splits into one empty piece.
RECURSIVE split(_, _)
split(s, sep) ==
    LET i == indexOf(s, sep)
    IN  IF i = -1 THEN <<s>>
        ELSE <<SubSeq(s, 1, i)>> \o split(SubSeq(s, i + 2, Len(s)), sep)

\* Concatenation of a sequence of strings.
RECURSIVE concat(_)
concat(xs) == IF xs = <<>> THEN <<>> ELSE Head(xs) \o concat(Tail(xs))

IsQuote(c) == c \in {"'", "\""}

\* The length of the longest prefix of s that holds no quote character.
RECURSIVE runLength(_)
runLength(s) ==
    IF s = <<>> \/ IsQuote(Head(s)) THEN 0 ELSE 1 + runLength(Tail(s))

\* s.match(/[^'"]+/gm): every maximal run of characters that are neither '
\* nor ", left to right.  JavaScript returns null when there is none; null
\* is the empty sequence here (a match array is never empty).
RECURSIVE matchRuns(_)
matchRuns(s) ==
    IF s = <<>> THEN <<>>
    ELSE IF IsQuote(Head(s)) THEN matchRuns(Tail(s))
    ELSE LET n == runLength(s)
         IN  <<SubSeq(s, 1, n)>> \o matchRuns(SubSeq(s, n + 1, Len(s)))

(***************************************************************************)
(* Template parser                                                         *)
(***************************************************************************)

COLOR_GRAY    == <<"ESC", "[", "3", "0", "m">>
COLOR_CYAN    == <<"ESC", "[", "3", "6", "m">>
COLOR_DEFAULT == <<"ESC", "[", "0", "m">>

\* An absent (undefined) default, and a default that is the match array.
Undefined == [kind |-> "undefined"]
ArrayOf(items) == [kind |-> "array", items |-> items]

\* parseStringToArray: split on newlines, trim each line, drop empty ones.
NonEmpty(line) == Len(line) > 0

parseStringToArray(s) ==
    LET lines == split(s, "\n")
    IN  SelectSeq([i \in 1..Len(lines) |-> trim(lines[i])], NonEmpty)

\* composeQuestion(line, comment)
composeQuestion(line, comment) ==
    LET envName == trim(slice(line, 0, indexOf(line, "=")))
        envDefaultValue ==
            matchRuns(trim(slice(line, indexOf(line, "=") + 1, Len(line))))
    IN  [ prefix  |-> <<"\n">> \o comment \o COLOR_CYAN \o <<"GEAR">> \o COLOR_DEFAULT,
          name    |-> envName,
          message |-> envName \o <<" ", "=">>,
          type    |-> "input",
          default |-> IF Len(envDefaultValue) > 0
                      THEN ArrayOf(envDefaultValue)
                      ELSE Undefined ]

\* The text one comment line adds to the accumulator.
commentInfo(line) ==
    COLOR_GRAY \o <<"I", "N", "F", "O", ":", " ">>
        \o trim(slice(line, indexOf(line, "#") + 1, Len(line)))
        \o COLOR_DEFAULT \o <<"\n">>

\* The forEach of extractQuestions as a fold over the lines: comment is the
\* accumulator, qs the questions pushed so far.
RECURSIVE extractLoop(_, _, _)
extractLoop(lines, comment, qs) ==
    IF lines = <<>> THEN qs
    ELSE IF startsWith(Head(lines), "#")
         THEN extractLoop(Tail(lines), comment \o commentInfo(Head(lines)), qs)
         ELSE extractLoop(Tail(lines), <<>>,
                          Append(qs, composeQuestion(Head(lines), comment)))

\* extractQuestions(envArray)
extractQuestions(envArray) == extractLoop(envArray, <<>>, <<>>)

\* The parse of a raw template text: fetchEnvFor's parseStringToArray, then
\* extractQuestions (startCLI).
parse(text) == extractQuestions(parseStringToArray(text))

(***************************************************************************)
(* Specification SpecParse: the parser applied to every template text over *)
(* TemplateAlphabet of at most MaxTextLen characters.                      *)
(***************************************************************************)

MaxTextLen == 5

TemplateAlphabet == {"a", "=", "#", "'", "\"", " ", "\n"}

\* Every string over alphabet of at most n characters.
StringsUpTo(alphabet, n) == UNION {[1..k -> alphabet] : k \in 0..n}

IdleParse == tplText = <<>> /\ envQuestions = <<>> /\ parsePc = "idle"
IdleStore == cfgIn = <<>> /\ cfgText = <<>> /\ cfgOut = <<>> /\ storePc = "idle"
IdleTabs  == tabNames = <<>> /\ tabCounts = <<>> /\ tabPc = "idle"
IdleWiz   ==
    /\ wzTemplate = <<>> /\ files = <<>> /\ wzPc = "idle" /\ wzPass = 0
    /\ wzQuestions = <<>> /\ wzIdx = 0 /\ wzAnswers = <<>>
    /\ wzFilename = "" /\ wzConfirm = FALSE /\ wzLastEvent = "none"
    /\ wzWrites = 0 /\ wzWarnings = 0 /\ wzResult = <<>>
IdleSel   ==
    /\ selFn = "none" /\ selPc = "idle" /\ selConfig = [kind |-> "undefined"]
    /\ selStdout = <<>> /\ selCatalog = <<>> /\ selName = <<>>
    /\ selWarnings = 0 /\ selLogged = FALSE /\ selPrompted = FALSE
    /\ selCreated = "no" /\ selFailed = "none"
    /\ selResult = [kind |-> "undefined"]
IdleCli   ==
    /\ cliVersion = "none" /\ cliPc = "idle" /\ cliCatalog = <<>>
    /\ cliQuery = <<>> /\ cliOffered = <<>> /\ cliSelected = <<>>
    /\ cliQuestions = <<>> /\ cliIdx = 0 /\ cliAnswers = <<>>
    /\ authCalls = 0 /\ authPc = "idle" /\ authResult = "none"
    /\ authLogins = 0 /\ authDeclined = FALSE /\ cliCloned = "no"
IdleLoc   ==
    /\ locFrames = <<>> /\ locEntered = <<>> /\ locWarnings = 0
    /\ locPrompts = 0 /\ locResult = [kind |-> "undefined"]

InitParse ==
    /\ tplText \in StringsUpTo(TemplateAlphabet, MaxTextLen)
    /\ envQuestions = <<>>
    /\ parsePc = "ready"
    /\ IdleStore /\ IdleTabs /\ IdleWiz /\ IdleSel /\ IdleCli /\ IdleLoc

\* startCLI, lines 179-181: the template text is split into lines and parsed.
ParseTemplate ==
    /\ parsePc = "ready"
    /\ envQuestions' = parse(tplText)
    /\ parsePc' = "done"
    /\ UNCHANGED <<tplText, notParse>>

NextParse == ParseTemplate

SpecParse == InitParse /\ [][NextParse]_vars

(***************************************************************************)
(* The template format, as the specification words it (section 3): a line  *)
(* is a comment (starts with #), an assignment (holds =), blank, or none   *)
(* of these (malformed).                                                   *)
(***************************************************************************)

IsBlankLine(l)      == trim(l) = <<>>
IsCommentLine(l)    == startsWith(trim(l), "#")
IsAssignmentLine(l) == ~IsCommentLine(l) /\ indexOf(l, "=") # -1
IsMalformedLine(l)  ==
    ~IsBlankLine(l) /\ ~IsCommentLine(l) /\ indexOf(l, "=") = -1

RawLines(text) == split(text, "\n")

AssignmentLines(text) == SelectSeq(RawLines(text), IsAssignmentLine)

HasMalformedLine(text) ==
    \E i \in 1..Len(RawLines(text)) : IsMalformedLine(RawLines(text)[i])

\* The text after the first = of an assignment line, trimmed.
AfterEquals(l) == trim(SubSeq(l, indexOf(l, "=") + 2, Len(l)))

\* The first maximal run of quote-free characters of s, stated by position:
\* it starts at the first character that is no quote and ends before the
\* next quote.  Only used where such a character exists.
FirstRunOf(s) ==
    LET i == CHOOSE k \in 1..Len(s) :
                 ~IsQuote(s[k]) /\ \A j \in 1..(k - 1) : IsQuote(s[j])
        j == CHOOSE k \in i..Len(s) :
                 /\ \A m \in i..k : ~IsQuote(s[m])
                 /\ (k = Len(s) \/ IsQuote(s[k + 1]))
    IN  SubSeq(s, i, j)

HasRun(s) == \E k \in 1..Len(s) : ~IsQuote(s[k])

\* Array.prototype.join(','), which is how JavaScript turns an array into a
\* string (String(array), template literals).
RECURSIVE joinComma(_)
joinComma(items) ==
    IF items = <<>> THEN <<>>
    ELSE IF Len(items) = 1 THEN items[1]
    ELSE items[1] \o <<",">> \o joinComma(Tail(items))

\* A question's default read as a string value, absent when undefined.
DefaultAsString(q) ==
    IF q.default.kind = "undefined" THEN [kind |-> "undefined"]
    ELSE [kind |-> "string", value |-> joinComma(q.default.items)]

\* What the claims expect of the k-th assignment line.
ExpectedDefault(l) ==
    IF HasRun(AfterEquals(l))
    THEN [kind |-> "string", value |-> FirstRunOf(AfterEquals(l))]
    ELSE [kind |-> "undefined"]

\* C5: for every assignment line, the question's defaultValue is the first
\* maximal quote-free run of the trimmed text after the first '=', and it is
\* absent when there is no such run.  The questions are matched to the
\* assignment lines by position on templates without malformed lines.
C5_DefaultIsFirstRun ==
    (parsePc = "done" /\ ~HasMalformedLine(tplText)) =>
        /\ Len(envQuestions) = Len(AssignmentLines(tplText))
        /\ \A k \in 1..Len(envQuestions) :
               DefaultAsString(envQuestions[k])
                   = ExpectedDefault(AssignmentLines(tplText)[k])

\* The part of C5 that the code does satisfy: the default is absent exactly
\* when no quote-free run exists, and the first element of the default is
\* the first run.
C5_FirstElementIsFirstRun ==
    (parsePc = "done" /\ ~HasMalformedLine(tplText)) =>
        \A k \in 1..Len(envQuestions) :
            LET l == AssignmentLines(tplText)[k]
                d == envQuestions[k].default
            IN  IF HasRun(AfterEquals(l))
                THEN d.kind = "array" /\ d.items[1] = FirstRunOf(AfterEquals(l))
                ELSE d.kind = "undefined"

\* The comment bodies and names the claims expect: one entry per assignment
\* line, holding the bodies of the comment lines since the previous
\* assignment line (or the start of the template).
RECURSIVE ExpectedQuestions(_, _)
ExpectedQuestions(rawLines, pending) ==
    IF rawLines = <<>> THEN <<>>
    ELSE LET l == Head(rawLines)
         IN  IF IsCommentLine(l)
             THEN ExpectedQuestions(Tail(rawLines),
                      Append(pending, trim(Tail(trim(l)))))
             ELSE IF IsAssignmentLine(l)
             THEN <<[name |-> trim(SubSeq(l, 1, indexOf(l, "="))),
                     help |-> pending]>>
                      \o ExpectedQuestions(Tail(rawLines), <<>>)
             ELSE ExpectedQuestions(Tail(rawLines), pending)

\* The prefix a question shows for a list of comment bodies.
HelpPrefix(bodies) ==
    <<"\n">>
      \o concat([i \in 1..Len(bodies) |->
                   COLOR_GRAY \o <<"I", "N", "F", "O", ":", " ">> \o bodies[i]
                       \o COLOR_DEFAULT \o <<"\n">>])
      \o COLOR_CYAN \o <<"GEAR">> \o COLOR_DEFAULT

QuestionsAsExpected(text, qs) ==
    LET exp == ExpectedQuestions(RawLines(text), <<>>)
    IN  /\ Len(qs) = Len(exp)
        /\ \A k \in 1..Len(qs) :
               /\ qs[k].name = exp[k].name
               /\ qs[k].prefix = HelpPrefix(exp[k].help)

\* C6: for every template, parse emits one question per assignment line in
\* template order, each with exactly the comment lines since the previous
\* assignment as help text; no assignment line, no question.
C6_OneQuestionPerAssignment ==
    parsePc = "done" => QuestionsAsExpected(tplText, envQuestions)

\* C6 restricted to templates made of comment, assignment and blank lines
\* only: there the code does what the claim says.
C6_OnWellFormedTemplates ==
    (parsePc = "done" /\ ~HasMalformedLine(tplText)) =>
        QuestionsAsExpected(tplText, envQuestions)

\* C7: parsing a template that holds a malformed line (not blank, no '=',
\* not starting with '#') fails with a TemplateParseError: the parse never
\* completes with a question sequence for such a template.
C7_MalformedLineRejected ==
    parsePc = "done" => ~HasMalformedLine(tplText)

(***************************************************************************)
(* Column aligner                                                          *)
(***************************************************************************)

\* The divisor of calculateTabs, which is the terminal's tab stop width.
TabStopWidth == 8

\* Math.max(...xs) of a non-empty list of numbers.
maxOf(xs) == CHOOSE m \in {xs[i] : i \in 1..Len(xs)} :
                 \A i \in 1..Len(xs) : xs[i] <= m

\* calculateTabs with Math.ceil in place of Math.floor.
calculateTabs_Ceil(strings) ==
    IF strings = <<>> THEN <<>>
    ELSE LET max == maxOf([i \in 1..Len(strings) |-> Len(strings[i])])
         IN  [i \in 1..Len(strings) |->
                 ((max - Len(strings[i]) + TabStopWidth - 1) \div TabStopWidth) + 1]

\* calculateTabs(strings): floor((max - length) / 8) + 1 per string.  The
\* maps run over no element when the list is empty, whatever Math.max() is.
calculateTabs(strings) ==
    IF strings = <<>> THEN <<>>
    ELSE LET max == maxOf([i \in 1..Len(strings) |-> Len(strings[i])])
         IN  [i \in 1..Len(strings) |->
                 ((max - Len(strings[i])) \div TabStopWidth) + 1]

(***************************************************************************)
(* Specification SpecTabs: calculateTabs applied to every list of at most  *)
(* MaxNames names of at most MaxNameLen characters.                        *)
(***************************************************************************)

MaxNames == 2
MaxNameLen == 17

\* The name of n characters; calculateTabs reads only the lengths.
NameOfLen(n) == [i \in 1..n |-> "a"]

NameLists ==
    UNION {[1..k -> {NameOfLen(n) : n \in 0..MaxNameLen}] : k \in 0..MaxNames}

InitTabs ==
    /\ tabNames \in NameLists
    /\ tabCounts = <<>>
    /\ tabPc = "ready"
    /\ IdleParse /\ IdleStore /\ IdleWiz /\ IdleSel /\ IdleCli /\ IdleLoc

\* selectSipgateIOProject, lines 221-223: the tab counts of the names.
AlignNames ==
    /\ tabPc = "ready"
    /\ tabCounts' = calculateTabs(tabNames)
    /\ tabPc' = "done"
    /\ UNCHANGED <<tabNames, notTabs>>

NextTabs == AlignNames

SpecTabs == InitTabs /\ [][NextTabs]_vars

\* The column a terminal with tab stops every TabStopWidth columns is in
\* after col characters followed by t tab characters: each tab moves to the
\* next tab stop beyond the current column.
RECURSIVE ColumnAfter(_, _)
ColumnAfter(col, t) ==
    IF t = 0 THEN col
    ELSE ColumnAfter(((col \div TabStopWidth) + 1) * TabStopWidth, t - 1)

LongestName == maxOf([i \in 1..Len(tabNames) |-> Len(tabNames[i])])

\* C8 as claimed: each name followed by its tab count of tabs reaches a
\* column at least as far as the longest name, and no smaller tab count
\* does (read in the claim's favour: no smaller count of at least one tab,
\* the separator every entry gets).
C8_ReachesLongestMinimally ==
    tabPc = "done" =>
        \A i \in 1..Len(tabNames) :
            /\ ColumnAfter(Len(tabNames[i]), tabCounts[i]) >= LongestName
            /\ \A t \in 1..(tabCounts[i] - 1) :
                   ColumnAfter(Len(tabNames[i]), t) < LongestName

\* C8 as amended: there is one count per name, each at least 1; each name
\* followed by its tabs reaches a column greater than maxLen - 8 (the last
\* tab stop at or before the end of the longest name, or the next one), and
\* no smaller tab count takes it beyond maxLen.
C8_WithinOneTabStop ==
    tabPc = "done" =>
        /\ Len(tabCounts) = Len(tabNames)
        /\ \A i \in 1..Len(tabNames) :
               /\ tabCounts[i] >= 1
               /\ ColumnAfter(Len(tabNames[i]), tabCounts[i])
                      > LongestName - TabStopWidth
               /\ ColumnAfter(Len(tabNames[i]), tabCounts[i])
                      <= ((LongestName \div TabStopWidth) + 1) * TabStopWidth
               /\ \A t \in 0..(tabCounts[i] - 1) :
                      ColumnAfter(Len(tabNames[i]), t) <= LongestName

\* C8 witness: two names aligned, the shorter one 7 characters and the
\* longer one 9, where one tab leaves the shorter name at column 8.
C8_Witness ==
    /\ tabPc = "done"
    /\ Len(tabNames) = 2
    /\ Len(tabNames[1]) = 7 /\ Len(tabNames[2]) = 9
    /\ tabCounts = <<1, 1>>

(***************************************************************************)
(* Configuration store                                                     *)
(***************************************************************************)

\* A Config is a JavaScript object, modelled as the sequence of its own
\* [key, value] entries in the order the object enumerates them
\* (Object.entries, for-in): the keys that are array indices first, in
\* ascending numeric order, then every other key in insertion order.
HasKey(cfg, k) == \E i \in 1..Len(cfg) : cfg[i].key = k

DecimalDigits == <<"0", "1", "2", "3", "4", "5", "6", "7", "8", "9">>

IsDigit(c) == \E i \in 1..Len(DecimalDigits) : DecimalDigits[i] = c

digitValue(c) == (CHOOSE i \in 1..Len(DecimalDigits) : DecimalDigits[i] = c) - 1

\* The largest array index, 2^32 - 2.
MaxArrayIndex == <<"4", "2", "9", "4", "9", "6", "7", "2", "9", "4">>

\* a < b for two digit strings without leading zeros, compared as numbers:
\* the shorter is smaller, equal lengths compare digit by digit.
indexLess(a, b) ==
    \/ Len(a) < Len(b)
    \/ /\ Len(a) = Len(b)
       /\ \E i \in 1..Len(a) :
              /\ digitValue(a[i]) < digitValue(b[i])
              /\ \A j \in 1..(i - 1) : a[j] = b[j]

\* A property key that is an array index: the canonical decimal string of
\* an integer from 0 to 2^32 - 2.
IsArrayIndex(k) ==
    /\ Len(k) >= 1
    /\ \A i \in 1..Len(k) : IsDigit(k[i])
    /\ (Len(k) = 1 \/ k[1] # "0")
    /\ ~indexLess(MaxArrayIndex, k)

\* The key whose assignment goes to the prototype setter of Object.prototype
\* and creates no own property.
ProtoKey == <<"_", "_", "p", "r", "o", "t", "o", "_", "_">>

\* cfgObj[k] = v on an ordinary object: the key __proto__ adds no entry, an
\* existing key keeps its place, a new array index goes among the array
\* indices in numeric order, any other new key goes last.
setKey(cfg, k, v) ==
    IF k = ProtoKey THEN cfg
    ELSE IF HasKey(cfg, k)
    THEN [i \in 1..Len(cfg) |->
             IF cfg[i].key = k THEN [key |-> k, value |-> v] ELSE cfg[i]]
    ELSE IF IsArrayIndex(k)
    THEN LET n == Cardinality({i \in 1..Len(cfg) :
                                  /\ IsArrayIndex(cfg[i].key)
                                  /\ indexLess(cfg[i].key, k)})
         IN  SubSeq(cfg, 1, n) \o <<[key |-> k, value |-> v]>>
                 \o SubSeq(cfg, n + 1, Len(cfg))
    ELSE Append(cfg, [key |-> k, value |-> v])

\* String.prototype.lastIndexOf for a one-character needle.
lastIndexOf(s, c) ==
    IF \E i \in 1..Len(s) : s[i] = c
    THEN (CHOOSE i \in 1..Len(s) : s[i] = c /\ \A j \in (i + 1)..Len(s) : s[j] # c) - 1
    ELSE -1

\* extractEnv splitting at the last '=' instead of the first.
extractEnv_LastEquals(line) ==
    [ envName  |-> trim(slice(line, 0, lastIndexOf(line, "="))),
      envValue |-> matchRuns(trim(slice(line, lastIndexOf(line, "=") + 1, Len(line)))) ]

\* extractEnv(line): the name before the first '=' and the match array of
\* the text after it (the empty sequence for null).
extractEnv(line) ==
    [ envName  |-> trim(slice(line, 0, indexOf(line, "="))),
      envValue |-> matchRuns(trim(slice(line, indexOf(line, "=") + 1, Len(line)))) ]

\* The filter of loadConfig: neither a comment nor blank.
IsConfigLine(line) == ~startsWith(line, "#") /\ trim(line) # <<>>

\* The forEach of loadConfig as a fold over the kept lines.
RECURSIVE loadLoop(_, _)
loadLoop(lines, cfgObj) ==
    IF lines = <<>> THEN cfgObj
    ELSE LET e == extractEnv(Head(lines))
         IN  loadLoop(Tail(lines),
                      setKey(cfgObj, e.envName,
                             IF e.envValue = <<>> THEN <<>> ELSE e.envValue[1]))

\* loadConfig, from the content readFileSync returned.
loadConfig(content) ==
    loadLoop(SelectSeq(split(content, "\n"), IsConfigLine), <<>>)

\* A wizard answer is a string, or the match array of a default the user
\* accepted; a Config value is a string.
StringValue(v) == [kind |-> "string", value |-> v]

\* The text of a value inside a template literal.
valueText(v) == IF v.kind = "array" THEN joinComma(v.items) ELSE v.value

\* buildEnv(envVarValues): one KEY=VALUE line per entry, in the order the
\* object enumerates them, with no escaping (specification section 4.2; the function's file is not
\* among the sources).
buildEnv(envVarValues) ==
    concat([i \in 1..Len(envVarValues) |->
               envVarValues[i].key \o <<"=">> \o valueText(envVarValues[i].value)
                   \o <<"\n">>])

\* save of a Config: its values are strings.
saveConfig(cfg) ==
    buildEnv([i \in 1..Len(cfg) |->
                 [key |-> cfg[i].key, value |-> StringValue(cfg[i].value)]])

(***************************************************************************)
(* Specification SpecStore: save then load of every Config of at most      *)
(* MaxEntries entries over KeySamples and ValueSamples.                    *)
(***************************************************************************)

MaxEntries == 2

KeySamples ==
    { <<"A">>, <<"B">>, <<>>, <<" ", "A">>, <<"A", "=">>, <<"#", "A">>,
      <<"2">>, <<"1", "0">>, ProtoKey }

ValueSamples ==
    { <<>>, <<"x">>, <<"x", " ", "y">>, <<"x", "=", "y">>, <<"#", "x">>,
      <<"'", "x", "'">>, <<"x", "\"", "y">>, <<" ", "x">>, <<"x", "\n", "y">> }

\* The entries are in the order an object enumerates them: nothing comes
\* before an array index but a smaller array index.
IsObjectOrder(c) ==
    \A i, j \in 1..Len(c) :
        (i < j /\ IsArrayIndex(c[j].key)) =>
            (IsArrayIndex(c[i].key) /\ indexLess(c[i].key, c[j].key))

\* Every Config of at most MaxEntries entries: distinct keys, array indices
\* first and ascending, the other keys in any (insertion) order.  An own
\* property __proto__ is one that an object literal with a computed key or
\* JSON.parse creates; assignment cannot.
Configs ==
    { c \in UNION {[1..k -> [key : KeySamples, value : ValueSamples]] :
                      k \in 0..MaxEntries} :
        /\ \A i, j \in 1..Len(c) : i # j => c[i].key # c[j].key
        /\ IsObjectOrder(c) }

InitStore ==
    /\ cfgIn \in Configs
    /\ cfgText = <<>>
    /\ cfgOut = <<>>
    /\ storePc = "ready"
    /\ IdleParse /\ IdleTabs /\ IdleWiz /\ IdleSel /\ IdleCli /\ IdleLoc

\* save: the Config is serialized to the file's text.
SaveConfig ==
    /\ storePc = "ready"
    /\ cfgText' = saveConfig(cfgIn)
    /\ storePc' = "saved"
    /\ UNCHANGED <<cfgIn, cfgOut, notStore>>

\* load: the file's text is parsed back.
LoadConfig ==
    /\ storePc = "saved"
    /\ cfgOut' = loadConfig(cfgText)
    /\ storePc' = "loaded"
    /\ UNCHANGED <<cfgIn, cfgText, notStore>>

NextStore == SaveConfig \/ LoadConfig

SpecStore == InitStore /\ [][NextStore]_vars

HasChar(s, c) == \E i \in 1..Len(s) : s[i] = c

\* A key that survives the round trip: no '=', no newline, no leading '#',
\* no leading or trailing whitespace, and not __proto__.
CleanKey(k) ==
    /\ k # ProtoKey
    /\ ~HasChar(k, "=") /\ ~HasChar(k, "\n")
    /\ ~startsWith(k, "#")
    /\ (k # <<>> => ~IsWhiteSpace(k[1]) /\ ~IsWhiteSpace(k[Len(k)]))

\* A value that survives it: no quote, no newline, no leading or trailing
\* whitespace.
CleanValue(v) ==
    /\ ~HasChar(v, "'") /\ ~HasChar(v, "\"") /\ ~HasChar(v, "\n")
    /\ (v # <<>> => ~IsWhiteSpace(v[1]) /\ ~IsWhiteSpace(v[Len(v)]))

CleanConfig(c) ==
    \A i \in 1..Len(c) : CleanKey(c[i].key) /\ CleanValue(c[i].value)

\* C4 as claimed: for any Config C, load(save(C)) is C: same keys, same
\* values, same order.
C4_RoundTrip == storePc = "loaded" => cfgOut = cfgIn

\* C4 as amended: the round trip holds for every Config whose keys hold no
\* '=' or newline, do not start with '#', have no leading or trailing
\* whitespace and are not __proto__, and whose values hold no quote or newline and have no leading
\* or trailing whitespace.
C4_RoundTripClean ==
    (storePc = "loaded" /\ CleanConfig(cfgIn)) => cfgOut = cfgIn

\* C4 witness: a clean Config of two entries, one value holding an '=', has
\* been saved and loaded back.
C4_Witness ==
    /\ storePc = "loaded"
    /\ Len(cfgIn) = 2
    /\ CleanConfig(cfgIn)
    /\ \E i \in 1..2 : HasChar(cfgIn[i].value, "=")
    /\ cfgOut = cfgIn

(***************************************************************************)
(* Confirm/overwrite wizard: interactivelyGenerateConfig                   *)
(***************************************************************************)

\* `./${filename}.cfg`
configPath(filename) == <<"./", filename, ".cfg">>

\* configExists(configPath)
configExists(path) == files[path].exists

\* The file system after writeFileSync(path, content).
writeFileSync(fs, path, content) ==
    [fs EXCEPT ![path] = [exists |-> TRUE, content |-> content]]

\* readExampleConfig(): the lines of the example template (its file is not
\* among the sources; the wizard hands the result to extractQuestions).
readExampleConfig == wzTemplate

\* The prompt a pass waits at first: inquirer resolves an empty question
\* list at once, and the file name is asked next.
firstPrompt(questions) == IF questions = <<>> THEN "filename" ELSE "questions"

\* What an input prompt answers: the text typed, or the question's default
\* (the match array) when nothing was typed and a default exists.
promptAnswer(question, input) ==
    IF input = <<>> /\ question.default.kind = "array"
    THEN question.default
    ELSE StringValue(input)

\* Lines 102-109: the answers flattened into the returned Config.
resultConfigOf(envVarValues) ==
    [i \in 1..Len(envVarValues) |->
        [key   |-> envVarValues[i].key,
         value |-> IF envVarValues[i].value.kind = "array"
                   THEN envVarValues[i].value.items[1]
                   ELSE envVarValues[i].value.value]]

\* A restart that keeps the answers of the declined pass.
enterWizard_KeepsAnswers ==
    /\ wzQuestions' = extractQuestions(readExampleConfig)
    /\ wzPc' = firstPrompt(extractQuestions(readExampleConfig))
    /\ wzIdx' = 1
    /\ UNCHANGED <<wzAnswers, wzFilename>>
    /\ wzConfirm' = FALSE
    /\ wzPass' = wzPass + 1

\* `return interactivelyGenerateConfig()` (lines 77, 93): a new invocation
\* with locals of its own, run up to its first prompt (lines 52-55).
enterWizard ==
    /\ wzQuestions' = extractQuestions(readExampleConfig)
    /\ wzPc' = firstPrompt(extractQuestions(readExampleConfig))
    /\ wzIdx' = 1
    /\ wzAnswers' = <<>>
    /\ wzFilename' = ""
    /\ wzConfirm' = FALSE
    /\ wzPass' = wzPass + 1

\* A commit that returns the answers without the write of line 100.
commitAndReturn_NoWrite(fs, nWrites) ==
    /\ files' = fs
    /\ wzWrites' = nWrites
    /\ wzResult' = resultConfigOf(wzAnswers)
    /\ wzPc' = "done"

\* Lines 97-109: the final write and the return of the flattened answers.
commitAndReturn(fs, nWrites) ==
    /\ files' = writeFileSync(fs, configPath(wzFilename), buildEnv(wzAnswers))
    /\ wzWrites' = nWrites + 1
    /\ wzResult' = resultConfigOf(wzAnswers)
    /\ wzPc' = "done"

(***************************************************************************)
(* Specification SpecWizard: one run of the wizard, over the templates of  *)
(* TemplateSamples, the inputs of InputSamples and FileNameInputs, every   *)
(* initial file system, and at most MaxPasses passes.                      *)
(***************************************************************************)

MaxPasses == 3

\* Templates as readExampleConfig returns them: no line, one assignment with
\* a quoted default, and a comment with two assignments of one name.
TemplateSamples ==
    { <<>>,
      << <<"K", "=", "'", "d", "'">> >>,
      << <<"#", "h">>, <<"K", "=">>, <<"K", "=", "d">> >> }

\* What the user types at a question: nothing, or a value.
InputSamples == { <<>>, <<"v">> }

\* What the user types at the file name prompt: nothing (the default,
\* config), or a name.
FileNameInputs == { "", "prod" }

FileNames == { "config", "prod" }

Paths == { configPath(f) : f \in FileNames }

InitWizard ==
    /\ wzTemplate \in TemplateSamples
    /\ files \in [Paths -> { [exists |-> FALSE, content |-> <<>>],
                             [exists |-> TRUE, content |-> <<"o", "l", "d">>] }]
    /\ wzQuestions = extractQuestions(wzTemplate)
    /\ wzPc = firstPrompt(extractQuestions(wzTemplate))
    /\ wzPass = 1
    /\ wzIdx = 1
    /\ wzAnswers = <<>>
    /\ wzFilename = ""
    /\ wzConfirm = FALSE
    /\ wzLastEvent = "none"
    /\ wzWrites = 0
    /\ wzWarnings = 0
    /\ wzResult = <<>>
    /\ IdleParse /\ IdleStore /\ IdleTabs /\ IdleSel /\ IdleCli /\ IdleLoc

\* Lines 55-57: the user answers the question at wzIdx; after the last one
\* the file name prompt is shown.
AnswerQuestion ==
    /\ wzPc = "questions"
    /\ \E input \in InputSamples :
           wzAnswers' = setKey(wzAnswers, wzQuestions[wzIdx].name,
                               promptAnswer(wzQuestions[wzIdx], input))
    /\ wzIdx' = wzIdx + 1
    /\ wzPc' = IF wzIdx = Len(wzQuestions) THEN "filename" ELSE "questions"
    /\ wzLastEvent' = "answer"
    /\ UNCHANGED <<wzTemplate, files, wzPass, wzQuestions, wzFilename,
                   wzConfirm, wzWrites, wzWarnings, wzResult, notWiz>>

\* Lines 55-57, inside inquirer.prompt: inquirer releases that know the
\* askAnswered option do not ask a question whose name has an answer
\* already; earlier releases ask it, which is AnswerQuestion.
SkipAnswered ==
    /\ wzPc = "questions"
    /\ HasKey(wzAnswers, wzQuestions[wzIdx].name)
    /\ wzIdx' = wzIdx + 1
    /\ wzPc' = IF wzIdx = Len(wzQuestions) THEN "filename" ELSE "questions"
    /\ UNCHANGED <<wzTemplate, files, wzPass, wzQuestions, wzAnswers,
                   wzFilename, wzConfirm, wzLastEvent, wzWrites, wzWarnings,
                   wzResult, notWiz>>

\* Lines 59-66: the user names the file; the review prompt is shown.
ChooseFilename ==
    /\ wzPc = "filename"
    /\ \E input \in FileNameInputs :
           wzFilename' = IF input = "" THEN "config" ELSE input
    /\ wzPc' = "review"
    /\ wzLastEvent' = "filename"
    /\ UNCHANGED <<wzTemplate, files, wzPass, wzQuestions, wzIdx, wzAnswers,
                   wzConfirm, wzWrites, wzWarnings, wzResult, notWiz>>

\* Lines 68-100 with confirm = true: an existing destination brings the
\* overwrite prompt, a new one is written and the run returns.
ReviewAccepted ==
    /\ wzPc = "review"
    /\ wzConfirm' = TRUE
    /\ wzLastEvent' = "review-yes"
    /\ IF configExists(configPath(wzFilename))
       THEN /\ wzPc' = "overwrite"
            /\ UNCHANGED <<files, wzWrites, wzResult>>
       ELSE commitAndReturn(files, wzWrites)
    /\ UNCHANGED <<wzTemplate, wzPass, wzQuestions, wzIdx, wzAnswers,
                   wzFilename, wzWarnings, notWiz>>

\* Lines 76-78 with confirm = false: the wizard starts over.
ReviewDeclined ==
    /\ wzPc = "review"
    /\ wzPass < MaxPasses
    /\ wzLastEvent' = "review-no"
    /\ enterWizard
    /\ UNCHANGED <<wzTemplate, files, wzWrites, wzWarnings, wzResult, notWiz>>

\* Lines 89-90 and 97-109 with confirmoverwrite = true: the file is written
\* at line 90, and again at line 100 on the way out.
OverwriteAccepted ==
    /\ wzPc = "overwrite"
    /\ wzLastEvent' = "overwrite-yes"
    /\ commitAndReturn(
           writeFileSync(files, configPath(wzFilename), buildEnv(wzAnswers)),
           wzWrites + 1)
    /\ UNCHANGED <<wzTemplate, wzPass, wzQuestions, wzIdx, wzAnswers,
                   wzFilename, wzConfirm, wzWarnings, notWiz>>

\* A declined overwrite that warns and then falls through to the write.
OverwriteDeclined_FallsThrough ==
    /\ wzPc = "overwrite"
    /\ wzLastEvent' = "overwrite-no"
    /\ wzWarnings' = wzWarnings + 1
    /\ commitAndReturn(files, wzWrites)
    /\ UNCHANGED <<wzTemplate, wzPass, wzQuestions, wzIdx, wzAnswers,
                   wzFilename, wzConfirm, notWiz>>

\* Lines 91-94 with confirmoverwrite = false: a warning, and the wizard
\* starts over.
OverwriteDeclined ==
    /\ wzPc = "overwrite"
    /\ wzPass < MaxPasses
    /\ wzLastEvent' = "overwrite-no"
    /\ wzWarnings' = wzWarnings + 1
    /\ enterWizard
    /\ UNCHANGED <<wzTemplate, files, wzWrites, wzResult, notWiz>>

NextWizard ==
    \/ AnswerQuestion
    \/ SkipAnswered
    \/ ChooseFilename
    \/ ReviewAccepted
    \/ ReviewDeclined
    \/ OverwriteAccepted
    \/ OverwriteDeclined

SpecWizard == InitWizard /\ [][NextWizard]_vars

\* C1: in every successful run of the wizard, counted over all its passes,
\* the configuration file is written exactly once, whether the destination
\* was new or existed and the overwrite was confirmed.
C1_ExactlyOneWrite == wzPc = "done" => wzWrites = 1

\* The part of C1 the code satisfies: a run that ends on a destination that
\* did not exist wrote once, and every successful run wrote at least once.
C1_NewDestinationWrittenOnce ==
    wzPc = "done" =>
        /\ wzWrites >= 1
        /\ (wzLastEvent = "review-yes" => wzWrites = 1)

\* C2: when the review is confirmed and the destination exists, the
\* overwrite confirmation is asked before any write; a declined overwrite
\* writes nothing, warns once and restarts at the first prompt of a new
\* pass; an existing destination is written only by the step that accepts
\* the overwrite confirmation, in that same pass.
C2_OverwriteGuard ==
    [][ /\ (/\ wzPc = "review"
            /\ wzLastEvent' = "review-yes"
            /\ configExists(configPath(wzFilename)))
           => (wzPc' = "overwrite" /\ files' = files /\ wzWrites' = wzWrites)
        /\ (wzPc = "overwrite" /\ wzLastEvent' = "overwrite-no")
           => /\ files' = files
              /\ wzWrites' = wzWrites
              /\ wzWarnings' = wzWarnings + 1
              /\ wzPass' = wzPass + 1
              /\ wzPc' = firstPrompt(wzQuestions')
              /\ wzIdx' = 1
              /\ wzAnswers' = <<>>
        /\ (/\ (files' # files \/ wzWrites' > wzWrites)
            /\ configExists(configPath(wzFilename)))
           => /\ wzPc = "overwrite"
              /\ wzLastEvent' = "overwrite-yes"
              /\ wzPass' = wzPass
      ]_vars

\* C2 witness: the review was confirmed on an existing destination, the
\* overwrite was declined, and the wizard is back at the start of pass 2
\* with one warning and nothing written.
C2_Witness ==
    /\ wzLastEvent = "overwrite-no"
    /\ wzPass = 2
    /\ wzWarnings = 1
    /\ wzWrites = 0
    /\ wzAnswers = <<>>

\* C3: a declined review writes nothing and is followed by the first
\* prompt of a fresh pass: the template is parsed again, no answer and no
\* file name of the declined pass is kept, and the review of the new pass is
\* reached only after every question and the file name were asked again.
C3_DeclineRestarts ==
    /\ [][ (wzPc = "review" /\ wzLastEvent' = "review-no")
           => /\ files' = files
              /\ wzWrites' = wzWrites
              /\ wzPass' = wzPass + 1
              /\ wzQuestions' = extractQuestions(wzTemplate)
              /\ wzPc' = firstPrompt(wzQuestions')
              /\ wzIdx' = 1
              /\ wzAnswers' = <<>>
              /\ wzFilename' = ""
         ]_vars
    /\ [](wzPc \in {"questions", "filename"} =>
              /\ Len(wzAnswers) <= wzIdx - 1
              /\ wzFilename = "")
    /\ [](wzPc \in {"review", "overwrite", "done"} =>
              /\ wzIdx = Len(wzQuestions) + 1
              /\ wzFilename \in FileNames)

\* C3 witness: a pass with questions was declined at the review; the wizard
\* waits at the first question of pass 2 with no answer and nothing written.
C3_Witness ==
    /\ wzLastEvent = "review-no"
    /\ wzPass = 2
    /\ wzPc = "questions"
    /\ wzIdx = 1
    /\ wzAnswers = <<>>
    /\ wzWrites = 0

(***************************************************************************)
(* Validated selectors                                                     *)
(***************************************************************************)

\* value ?? ''
orEmpty(c) == IF c.kind = "undefined" THEN <<>> ELSE c.value

\* value?.trim()
optTrim(c) == IF c.kind = "undefined" THEN Undefined ELSE StringValue(trim(c.value))

\* JavaScript truthiness of an optional string: defined and not empty.
truthy(c) == c.kind = "string" /\ c.value # <<>>

\* String.prototype.toLowerCase, one character at a time: the letters A-Z
\* map to a-z, every other character of the model's alphabets to itself.
UpperCaseLetters ==
    <<"A", "B", "C", "D", "E", "F", "G", "H", "I", "J", "K", "L", "M",
      "N", "O", "P", "Q", "R", "S", "T", "U", "V", "W", "X", "Y", "Z">>

LowerCaseLetters ==
    <<"a", "b", "c", "d", "e", "f", "g", "h", "i", "j", "k", "l", "m",
      "n", "o", "p", "q", "r", "s", "t", "u", "v", "w", "x", "y", "z">>

lowerChar(c) ==
    IF \E i \in 1..Len(UpperCaseLetters) : UpperCaseLetters[i] = c
    THEN LowerCaseLetters[CHOOSE i \in 1..Len(UpperCaseLetters) :
                              UpperCaseLetters[i] = c]
    ELSE c

toLowerCase(s) == [i \in 1..Len(s) |-> lowerChar(s[i])]

\* '\t'.repeat(n)
tabsRepeat(n) == [i \in 1..n |-> "\t"]

\* The region check without its test for a missing value.
regionNeedsPrompt_NoUndefinedCheck(region, stdout) ==
    \/ orEmpty(region) = <<>> /\ region.kind = "string"
    \/ ~includes(stdout, orEmpty(region))

\* selectGCPRegion, line 295.
isInvalidRegion(region, stdout) == ~includes(stdout, orEmpty(region))

\* selectGCPRegion, line 296: the condition that leads to the prompt.
regionNeedsPrompt(region, stdout) ==
    \/ region.kind = "undefined"
    \/ region.value = <<>>
    \/ isInvalidRegion(region, stdout)

\* projectName.match(/(^|\/)\.\.($|\/)/): a ".." that starts the string or
\* follows a slash, and ends the string or precedes a slash.
matchesParentDir(s) ==
    \E i \in 1..(Len(s) - 1) :
        /\ s[i] = "." /\ s[i + 1] = "."
        /\ (i = 1 \/ s[i - 1] = "/")
        /\ (i + 1 = Len(s) \/ s[i + 2] = "/")

\* selectGoogleCloudProject, lines 148-150.
isValidGcpProjectName(projectName, stdout) ==
    /\ includes(stdout, orEmpty(projectName))
    /\ ~(projectName.kind = "string" /\ matchesParentDir(projectName.value))

\* selectSipgateIOProject, lines 207-208.
isValidExampleName(projectName, githubProjects) ==
    \/ ~truthy(projectName)
    \/ \E i \in 1..Len(githubProjects) :
           githubProjects[i].repository = projectName.value

\* The source of the region prompt, lines 307-312.
regionChoices(stdout, input) ==
    SelectSeq(split(stdout, "\n"),
              LAMBDA name : includes(toLowerCase(name), toLowerCase(input)))

\* The source of the project prompt, lines 183-190.
gcpChoices(stdout, input) ==
    SelectSeq(split(stdout, "\n"),
              LAMBDA name : includes(toLowerCase(name), toLowerCase(input))
                            /\ name # <<>>)

\* The validate of the project prompt, lines 178-181.
validProjectInput(input) == trim(input) # <<>>

\* The longest description shown in full.
MaxDescriptionLen == 101

\* One rendered choice of the example prompt, lines 247-256.
renderProject(project) ==
    project.repository \o tabsRepeat(project.tabOffset) \o COLOR_GRAY
      \o <<" ", "-", " ">>
      \o (IF project.description # <<"n", "u", "l", "l">>
          THEN slice(project.description, 0, MaxDescriptionLen)
                 \o (IF Len(project.description) > MaxDescriptionLen
                     THEN <<".", ".", ".">> ELSE <<>>)
          ELSE <<>>)
      \o COLOR_DEFAULT

\* Lines 221-228: the catalog with its tab offsets.
withTabOffsets(githubProjects) ==
    LET tabs == calculateTabs([i \in 1..Len(githubProjects) |->
                                  githubProjects[i].repository])
    IN  [i \in 1..Len(githubProjects) |->
            [repository  |-> githubProjects[i].repository,
             description |-> githubProjects[i].description,
             tabOffset   |-> tabs[i]]]

\* The source of the example prompt, lines 235-257.
exampleChoices(githubProjects, input) ==
    LET hits == SelectSeq(githubProjects,
                    LAMBDA project :
                        \/ includes(toLowerCase(project.repository),
                                    toLowerCase(input))
                        \/ includes(toLowerCase(project.description),
                                    toLowerCase(input)))
    IN  [i \in 1..Len(hits) |-> renderProject(hits[i])]

\* A stripping step that cuts at the last tab of the choice.
stripSelection_LastTab(selectedProject) ==
    trim(slice(selectedProject, 0, lastIndexOf(selectedProject, "\t")))

\* Line 261: the picked choice cut at its first tab and trimmed.
stripSelection(selectedProject) ==
    trim(slice(selectedProject, 0, indexOf(selectedProject, "\t")))

(***************************************************************************)
(* Specification SpecSelect: one run of one selector, over the configured  *)
(* values of ConfigSamples, the listings of StdoutSamples, the catalogs of *)
(* CatalogSamples and the user's entries; every awaited command may fail.  *)
(***************************************************************************)

ConfigSamples ==
    { Undefined,
      StringValue(<<>>),
      StringValue(<<"e", "u">>),
      StringValue(<<"u">>),
      StringValue(<<"e", "u", "\n", "u", "s">>),
      StringValue(<<"z", "z">>),
      StringValue(<<" ", "e", "u", " ">>),
      StringValue(<<".", ".">>),
      StringValue(<<"a", "b">>),
      StringValue(<<" ">>) }

StdoutSamples ==
    { <<"e", "u", "\n", "u", "s", "\n">>,
      <<>>,
      <<"p", "/", ".", ".", "\n">> }

LongDescription == [i \in 1..(MaxDescriptionLen + 1) |-> "d"]

\* Catalogs as the fetched JSON may hold them: the keys are arbitrary strings
\* (repository names, and keys with a trailing space, a leading space or a
\* tab), the descriptions empty, 'null', with a tab, or over the cut length.
CatalogSamples ==
    { <<>>,
      << [repository |-> <<"a", "b">>, description |-> <<"S", "m", "s">>] >>,
      << [repository |-> <<"a", "b">>, description |-> <<"n", "u", "l", "l">>],
         [repository |-> <<"a", "b", "c", "d", "e", "f", "g", "h", "i">>,
          description |-> <<"e", "u">>],
         [repository |-> <<"c">>, description |-> LongDescription] >>,
      << [repository |-> <<"a", "-", "b">>,
          description |-> <<"x", "\t", "y", " ">>],
         [repository |-> <<"E", "u">>, description |-> <<>>] >>,
      << [repository |-> <<"a", "b", " ">>, description |-> <<"x">>],
         [repository |-> <<"a", "\t", "b">>, description |-> <<>>],
         [repository |-> <<"c", "d">>, description |-> <<"y">>] >>,
      << [repository |-> <<" ", "a">>, description |-> <<"z">>] >> }

\* What the user types into a prompt's search field.
QuerySamples == { <<>>, <<"u">>, <<"E", "U">>, <<"s", "m">> }

\* What the user enters at the project prompt.
ProjectInputs == { <<"e", "u">>, <<"u">>, <<"n", "e", "w">>, <<" ">> }

InitSelect ==
    /\ selFn \in {"region", "gcp", "sipgate"}
    /\ selConfig \in ConfigSamples
    /\ selStdout \in IF selFn = "sipgate" THEN {<<>>} ELSE StdoutSamples
    /\ selCatalog \in IF selFn = "sipgate" THEN CatalogSamples ELSE {<<>>}
    /\ selPc = IF selFn = "sipgate" THEN "fetch" ELSE "list"
    /\ selName = <<>>
    /\ selWarnings = 0
    /\ selLogged = FALSE
    /\ selPrompted = FALSE
    /\ selCreated = "no"
    /\ selFailed = "none"
    /\ selResult = Undefined
    /\ IdleParse /\ IdleStore /\ IdleTabs /\ IdleWiz /\ IdleCli /\ IdleLoc

\* An awaited command or fetch rejects: the selector throws.
fails(command) ==
    /\ selPc' = "error"
    /\ selFailed' = command
    /\ UNCHANGED <<selFn, selConfig, selStdout, selCatalog, selName,
                   selWarnings, selLogged, selPrompted, selCreated,
                   selResult, notSel>>

\* selectGCPRegion, lines 294-318, once the listing has arrived.
RegionListed ==
    /\ selFn = "region" /\ selPc = "list"
    /\ IF regionNeedsPrompt(selConfig, selStdout)
       THEN /\ selWarnings' = IF isInvalidRegion(selConfig, selStdout)
                              THEN selWarnings + 1 ELSE selWarnings
            /\ selPrompted' = TRUE
            /\ selPc' = "prompt"
            /\ UNCHANGED <<selName, selLogged, selResult>>
       ELSE /\ selLogged' = TRUE
            /\ selName' = orEmpty(selConfig)
            /\ selResult' = selConfig
            /\ selPc' = "done"
            /\ UNCHANGED <<selWarnings, selPrompted>>
    /\ UNCHANGED <<selFn, selConfig, selStdout, selCatalog, selCreated,
                   selFailed, notSel>>

\* selectGCPRegion, lines 302-319: the user picks one of the offered lines.
RegionPicked ==
    /\ selFn = "region" /\ selPc = "prompt"
    /\ \E input \in QuerySamples :
         \E i \in 1..Len(regionChoices(selStdout, input)) :
             /\ selName' = regionChoices(selStdout, input)[i]
             /\ selResult' = StringValue(regionChoices(selStdout, input)[i])
    /\ selPc' = "done"
    /\ UNCHANGED <<selFn, selConfig, selStdout, selCatalog, selWarnings,
                   selLogged, selPrompted, selCreated, selFailed, notSel>>

\* selectGoogleCloudProject, lines 147-172, once the listing has arrived.
ProjectsListed ==
    /\ selFn = "gcp" /\ selPc = "list"
    /\ LET projectName == optTrim(selConfig)
           isValidProjectName == isValidGcpProjectName(projectName, selStdout)
       IN  IF truthy(projectName) /\ isValidProjectName
           THEN /\ selLogged' = TRUE
                /\ selName' = projectName.value
                /\ selPc' = "setProject"
                /\ UNCHANGED <<selWarnings, selPrompted>>
           ELSE /\ selWarnings' = IF ~isValidProjectName
                                  THEN selWarnings + 1 ELSE selWarnings
                /\ selPrompted' = TRUE
                /\ selPc' = "prompt"
                /\ UNCHANGED <<selName, selLogged>>
    /\ UNCHANGED <<selFn, selConfig, selStdout, selCatalog, selCreated,
                   selFailed, selResult, notSel>>

\* selectGoogleCloudProject, lines 172-200: the user enters a name that
\* passes validate; a name the listing text does not hold is created.
ProjectEntered ==
    /\ selFn = "gcp" /\ selPc = "prompt"
    /\ \E input \in ProjectInputs :
           /\ validProjectInput(input)
           /\ selName' = input
           /\ selPc' = IF ~includes(selStdout, input)
                       THEN "create" ELSE "setProject"
    /\ UNCHANGED <<selFn, selConfig, selStdout, selCatalog, selWarnings,
                   selLogged, selPrompted, selCreated, selFailed, selResult,
                   notSel>>

\* createGoogleCloudProject returns true (lines 132-133, 194).
ProjectCreated ==
    /\ selFn = "gcp" /\ selPc = "create"
    /\ selCreated' = "ok"
    /\ selPc' = "setProject"
    /\ UNCHANGED <<selFn, selConfig, selStdout, selCatalog, selName,
                   selWarnings, selLogged, selPrompted, selFailed, selResult,
                   notSel>>

\* createGoogleCloudProject catches the command's failure and returns
\* false; selectGoogleCloudProject throws (lines 134-139, 195-197).
ProjectCreationFailed ==
    /\ selFn = "gcp" /\ selPc = "create"
    /\ selCreated' = "failed"
    /\ selPc' = "error"
    /\ selFailed' = "create"
    /\ UNCHANGED <<selFn, selConfig, selStdout, selCatalog, selName,
                   selWarnings, selLogged, selPrompted, selResult, notSel>>

\* gcloudSetProject, lines 152-158: the project is set active and its name
\* returned.
ProjectSet ==
    /\ selFn = "gcp" /\ selPc = "setProject"
    /\ selResult' = StringValue(selName)
    /\ selPc' = "done"
    /\ UNCHANGED <<selFn, selConfig, selStdout, selCatalog, selName,
                   selWarnings, selLogged, selPrompted, selCreated, selFailed,
                   notSel>>

\* selectSipgateIOProject, lines 206-230, once the catalog has arrived.
CatalogFetched ==
    /\ selFn = "sipgate" /\ selPc = "fetch"
    /\ LET projectName == optTrim(selConfig)
           isValidProjectName == isValidExampleName(projectName, selCatalog)
       IN  IF truthy(projectName) /\ isValidProjectName
           THEN /\ selLogged' = TRUE
                /\ selName' = projectName.value
                /\ selResult' = projectName
                /\ selPc' = "done"
                /\ UNCHANGED <<selWarnings, selPrompted>>
           ELSE /\ selWarnings' = IF ~isValidProjectName
                                  THEN selWarnings + 1 ELSE selWarnings
                /\ selPrompted' = TRUE
                /\ selPc' = "prompt"
                /\ UNCHANGED <<selName, selLogged, selResult>>
    /\ UNCHANGED <<selFn, selConfig, selStdout, selCatalog, selCreated,
                   selFailed, notSel>>

\* selectSipgateIOProject, lines 230-261: the user picks one of the
\* rendered choices, which is cut back to its name.
ExamplePicked ==
    /\ selFn = "sipgate" /\ selPc = "prompt"
    /\ \E input \in QuerySamples :
         LET choices == exampleChoices(withTabOffsets(selCatalog), input)
         IN  \E i \in 1..Len(choices) :
                 /\ selName' = stripSelection(choices[i])
                 /\ selResult' = StringValue(stripSelection(choices[i]))
    /\ selPc' = "done"
    /\ UNCHANGED <<selFn, selConfig, selStdout, selCatalog, selWarnings,
                   selLogged, selPrompted, selCreated, selFailed, notSel>>

\* The listing command fails (lines 144, 291).
ListingFailed == selPc = "list" /\ fails("list")

\* gcloud config set project fails (line 153).
SetProjectFailed == selPc = "setProject" /\ fails("setProject")

\* getProjectList fails (line 204).
FetchFailed == selPc = "fetch" /\ fails("fetch")

NextSelect ==
    \/ RegionListed
    \/ RegionPicked
    \/ ProjectsListed
    \/ ProjectEntered
    \/ ProjectCreated
    \/ ProjectCreationFailed
    \/ ProjectSet
    \/ CatalogFetched
    \/ ExamplePicked
    \/ ListingFailed
    \/ SetProjectFailed
    \/ FetchFailed

SpecSelect == InitSelect /\ [][NextSelect]_vars

\* The entries of the authoritative list: the lines of the listing.
ListEntries(stdout) ==
    {split(stdout, "\n")[i] : i \in 1..Len(split(stdout, "\n"))} \ {<<>>}

ConfiguredEntry ==
    /\ selConfig.kind = "string"
    /\ selConfig.value # <<>>
    /\ selConfig.value \in ListEntries(selStdout)

\* C9: in selectGCPRegion the configured region is returned without a
\* prompt only when it is non-empty and an entry of the region list; a
\* configured (non-empty) region that is no entry brings a warning and the
\* prompt.
C9_OnlyListedRegionAccepted ==
    selFn = "region" =>
        /\ (selPc = "done" /\ ~selPrompted) => ConfiguredEntry
        /\ (selPc \in {"prompt", "done"} /\ truthy(selConfig) /\ ~ConfiguredEntry)
               => (selWarnings = 1 /\ selPrompted)

\* What the code does instead: the configured region is accepted when it is
\* a non-empty substring of the listing text.
C9_SubstringAccepted ==
    (selFn = "region" /\ selPc \in {"prompt", "done"}) =>
        (~selPrompted <=> (truthy(selConfig)
                           /\ includes(selStdout, selConfig.value)))

\* C10 as claimed: no run of a selector ends in an error state, whatever
\* the configured value, the user's entry and the outcome of the
\* project-creation command (read in the claim's favour: the other commands
\* and the catalog fetch succeed).
C10_NeverEndsInError ==
    selFailed \in {"none", "create"} => selPc # "error"

\* C10 as amended: a run whose commands and fetch all succeed never ends in
\* an error state, and a run that returns, returns a selected value (a
\* string), whatever the configured value and the user's entry; a run ends
\* in an error state exactly when an awaited command failed, which includes
\* the project-creation command of selectGoogleCloudProject.
C10_ErrorOnlyWhenCommandFails ==
    /\ selPc = "error" <=> selFailed # "none"
    /\ selFailed = "create" => (selFn = "gcp" /\ selCreated = "failed")
    /\ selPc = "done" => selResult.kind = "string"
    /\ selPc = "error" => selResult.kind = "undefined"

\* C10 witness: selectGoogleCloudProject found the configured name invalid,
\* warned, prompted, created the entered project and returned its name.
C10_Witness ==
    /\ selFn = "gcp"
    /\ selPc = "done"
    /\ selWarnings = 1
    /\ selPrompted
    /\ selCreated = "ok"
    /\ selResult = StringValue(<<"n", "e", "w">>)

\* selectGoogleCloudProject went to (or through) createGoogleCloudProject.
CreationAttempted == selPc = "create" \/ selCreated # "no"

\* The run of selectGoogleCloudProject is past the prompt: selName is the
\* name the user entered.
NameEntered ==
    /\ selFn = "gcp"
    /\ selPrompted
    /\ selPc \in {"create", "setProject", "done", "error"}
    /\ selFailed # "list"

\* C11: in selectGoogleCloudProject a new project is created exactly when
\* the name the user entered is no entry of the fetched listing, no creation
\* is attempted for a listed name, and the project set active is a listed
\* project or one just created.
C11_CreatedExactlyWhenUnlisted ==
    /\ NameEntered =>
           (CreationAttempted <=> selName \notin ListEntries(selStdout))
    /\ (selFn = "gcp" /\ selPc = "done") =>
           (selName \in ListEntries(selStdout) \/ selCreated = "ok")

\* What the code does instead (line 193): creation is attempted exactly when
\* the entered name is no substring of the listing text.
C11_CreatedWhenNotSubstring ==
    NameEntered => (CreationAttempted <=> ~includes(selStdout, selName))

\* C16: in each validated selector the configured value is either accepted
\* (the config key is reported through logUsedConfig and no prompt is
\* shown), or a validation warning is emitted before the prompt; the prompt
\* is never shown without a warning, also when the configured value is
\* absent or empty.
C16_WarningBeforePrompt ==
    selPc \in {"prompt", "create", "setProject", "done"} =>
        /\ selLogged <=> ~selPrompted
        /\ selPrompted => selWarnings >= 1

\* What the code does instead: a value that is absent or empty (for the
\* project and example names: empty once trimmed) brings the prompt with no
\* warning; every other value that is not accepted is warned about once.
SilentlyPrompted ==
    IF selFn = "region" THEN ~truthy(selConfig) ELSE ~truthy(optTrim(selConfig))

C16_WarningUnlessAbsentOrEmpty ==
    selPc \in {"prompt", "create", "setProject", "done"} =>
        /\ selLogged <=> ~selPrompted
        /\ selPrompted => (selWarnings = 0 <=> SilentlyPrompted)
        /\ selWarnings <= 1

\* The keys of a catalog.
CatalogKeys(githubProjects) ==
    {githubProjects[i].repository : i \in 1..Len(githubProjects)}

\* C13 as claimed: for every catalog entry, the entry rendered as key, tab
\* padding and description and then stripped is exactly the entry's key; and
\* the value selectSipgateIOProject returns is the key of a catalog entry,
\* with no padding and no description left in it.
C13_StripReturnsKey ==
    /\ \A i \in 1..Len(selCatalog) :
           stripSelection(renderProject(withTabOffsets(selCatalog)[i]))
               = selCatalog[i].repository
    /\ (selFn = "sipgate" /\ selPc = "done") =>
           /\ selResult.kind = "string"
           /\ selResult.value \in CatalogKeys(selCatalog)
           /\ ~HasChar(selResult.value, "\t")

\* A key the stripping step gives back: no tab in it, no leading or trailing
\* whitespace.
PlainKey(k) ==
    /\ ~HasChar(k, "\t")
    /\ (k # <<>> => ~IsWhiteSpace(k[1]) /\ ~IsWhiteSpace(k[Len(k)]))

\* C13 as amended: for every catalog entry whose key holds no tab and has no
\* leading or trailing whitespace, the rendered entry stripped is exactly
\* the key, whatever the description; for any entry the stripped value is
\* the key cut at its first tab and trimmed; and when every key of the
\* catalog is such a key, the value selectSipgateIOProject returns is the
\* key of a catalog entry with no tab left in it.
C13_StripReturnsPlainKey ==
    /\ \A i \in 1..Len(selCatalog) :
           LET key == selCatalog[i].repository
               stripped == stripSelection(
                               renderProject(withTabOffsets(selCatalog)[i]))
           IN  /\ PlainKey(key) => stripped = key
               /\ stripped = trim(IF HasChar(key, "\t")
                                  THEN SubSeq(key, 1, indexOf(key, "\t"))
                                  ELSE key)
    /\ (selFn = "sipgate" /\ selPc = "done") =>
           /\ selResult.kind = "string"
           /\ ~HasChar(selResult.value, "\t")
           /\ (\A k \in CatalogKeys(selCatalog) : PlainKey(k)) =>
                  selResult.value \in CatalogKeys(selCatalog)
           /\ ~selPrompted => selResult.value \in CatalogKeys(selCatalog)

\* C13 witness: selectSipgateIOProject prompted, the user picked the choice
\* of the entry whose description holds a tab, and the key came back.
C13_Witness ==
    /\ selFn = "sipgate"
    /\ selPc = "done"
    /\ selPrompted
    /\ Len(selCatalog) = 2
    /\ selCatalog[1].description = <<"x", "\t", "y", " ">>
    /\ selResult = StringValue(selCatalog[1].repository)

(***************************************************************************)
(* startCLI, in its two versions, with gCloudAuthentification and          *)
(* gCloudCloneGitRepository                                                *)
(***************************************************************************)

\* part_001, lines 4-8: the catalog of the first version, a list of names;
\* .sort() leaves the literal in this order.
githubProjectNames ==
    << <<"s", "i", "p", "g", "a", "t", "e", "i", "o", "-", "i", "n", "c",
         "o", "m", "i", "n", "g", "c", "a", "l", "l", "-", "n", "o", "d",
         "e">>,
       <<"s", "i", "p", "g", "a", "t", "e", "i", "o", "-", "i", "n", "c",
         "o", "m", "i", "n", "g", "c", "a", "l", "l", "-", "p", "y", "t",
         "h", "o", "n">>,
       <<"s", "i", "p", "g", "a", "t", "e", "i", "o", "-", "s", "e", "n",
         "d", "s", "m", "s", "-", "n", "o", "d", "e">> >>

\* part_001, lines 63-66: the source of the example prompt of the first
\* version, projects.includes(input ?? '').
nameChoices(names, input) ==
    SelectSeq(names, LAMBDA projects : includes(projects, input))

\* part_001, lines 21-35: composeQuestion of the first version; the prefix
\* has no leading newline.
composeQuestion_part001(line, comment) ==
    LET envName == trim(slice(line, 0, indexOf(line, "=")))
        envDefaultValue ==
            matchRuns(trim(slice(line, indexOf(line, "=") + 1, Len(line))))
    IN  [ prefix  |-> comment \o COLOR_CYAN \o <<"GEAR">> \o COLOR_DEFAULT,
          name    |-> envName,
          message |-> envName \o <<" ", "=">>,
          type    |-> "input",
          default |-> IF Len(envDefaultValue) > 0
                      THEN ArrayOf(envDefaultValue)
                      ELSE Undefined ]

\* part_001, lines 45-47: the text one comment line adds to the accumulator.
commentInfo_part001(line) ==
    <<"I", "N", "F", "O", ":", " ">>
        \o trim(slice(line, indexOf(line, "#") + 1, Len(line)))
        \o <<" ", "\n">>

RECURSIVE extractLoop_part001(_, _, _)
extractLoop_part001(lines, comment, qs) ==
    IF lines = <<>> THEN qs
    ELSE IF startsWith(Head(lines), "#")
         THEN extractLoop_part001(Tail(lines),
                                  comment \o commentInfo_part001(Head(lines)),
                                  qs)
         ELSE extractLoop_part001(
                  Tail(lines), <<>>,
                  Append(qs, composeQuestion_part001(Head(lines), comment)))

\* part_001, lines 37-54: extractQuestions of the first version.
extractQuestions_part001(envArray) == extractLoop_part001(envArray, <<>>, <<>>)

\* The choices the example prompt's source returns for a query.
sourceChoices(version, githubProjects, input) ==
    IF version = "part_001"
    THEN nameChoices(githubProjectNames, input)
    ELSE exampleChoices(githubProjects, input)

\* part_000 lines 170-173: the selection cut back to the name; part_001
\* uses the selection as it is.
selectedName(version, choice) ==
    IF version = "part_001" THEN choice ELSE stripSelection(choice)

\* Lines 179-181 (part_000) and 74-81 (part_001): the fetched template text
\* split into trimmed non-empty lines and parsed.
questionsOf(version, text) ==
    IF version = "part_001"
    THEN extractQuestions_part001(parseStringToArray(text))
    ELSE extractQuestions(parseStringToArray(text))

(***************************************************************************)
(* Specification SpecCli: one run of startCLI in either version, over the  *)
(* catalogs of CatalogSamples, the queries of CliQueries, the templates of *)
(* CliTemplates and the inputs of InputSamples; every command and fetch    *)
(* may fail, and gCloudAuthentification is invoked at most MaxAttempts     *)
(* times.                                                                  *)
(***************************************************************************)

MaxAttempts == 3

CliQueries ==
    { <<>>, <<"s", "m", "s">>, <<"S", "M", "S">>, <<"e", "u">>, <<"x">> }

\* Template texts as fetchEnvFor fetches them: empty, and a comment with two
\* assignments.
CliTemplates ==
    { <<>>,
      <<"#", "h", "\n", "A", "=", "\n", " ", "B", "=", "'", "d", "'">> }

InitCli ==
    /\ cliVersion \in {"part_000", "part_001"}
    /\ cliPc = IF cliVersion = "part_001" THEN "select" ELSE "fetchList"
    /\ cliCatalog = <<>>
    /\ cliQuery = <<>>
    /\ cliOffered = IF cliVersion = "part_001"
                    THEN nameChoices(githubProjectNames, <<>>)
                    ELSE <<>>
    /\ cliSelected = <<>>
    /\ cliQuestions = <<>>
    /\ cliIdx = 0
    /\ cliAnswers = <<>>
    /\ authCalls = 0
    /\ authPc = "idle"
    /\ authResult = "none"
    /\ authLogins = 0
    /\ authDeclined = FALSE
    /\ cliCloned = "no"
    /\ IdleParse /\ IdleStore /\ IdleTabs /\ IdleWiz /\ IdleSel /\ IdleLoc

\* part_000, lines 127-139: the catalog arrives, the tab offsets are added
\* and the example prompt is shown with an empty search field.
CatalogArrived ==
    /\ cliVersion = "part_000" /\ cliPc = "fetchList"
    /\ \E githubProjects \in CatalogSamples :
           /\ cliCatalog' = withTabOffsets(githubProjects)
           /\ cliOffered' = exampleChoices(withTabOffsets(githubProjects), <<>>)
    /\ cliQuery' = <<>>
    /\ cliPc' = "select"
    /\ UNCHANGED <<cliVersion, cliSelected, cliQuestions, cliIdx, cliAnswers,
                   authCalls, authPc, authResult, authLogins, authDeclined,
                   cliCloned, notCli>>

\* An awaited fetch rejects: startCLI rejects.
cliFails ==
    /\ cliPc' = "error"
    /\ UNCHANGED <<cliVersion, cliCatalog, cliQuery, cliOffered, cliSelected,
                   cliQuestions, cliIdx, cliAnswers, authCalls, authPc,
                   authResult, authLogins, authDeclined, cliCloned, notCli>>

\* getProjectList fails (part_000, line 127).
CatalogFetchFailed == cliPc = "fetchList" /\ cliFails

\* The user changes the search field; the prompt asks its source again
\* (part_000 lines 144-166, part_001 lines 63-66).
TypeQuery ==
    /\ cliPc = "select"
    /\ \E input \in CliQueries \ {cliQuery} :
           /\ cliQuery' = input
           /\ cliOffered' = sourceChoices(cliVersion, cliCatalog, input)
    /\ UNCHANGED <<cliVersion, cliPc, cliCatalog, cliSelected, cliQuestions,
                   cliIdx, cliAnswers, authCalls, authPc, authResult,
                   authLogins, authDeclined, cliCloned, notCli>>

\* The user picks one of the offered choices; the template of the selected
\* project is fetched (part_000 lines 170-179, part_001 lines 70-74).
PickExample ==
    /\ cliPc = "select"
    /\ \E i \in 1..Len(cliOffered) :
           cliSelected' = selectedName(cliVersion, cliOffered[i])
    /\ cliPc' = "fetchEnv"
    /\ UNCHANGED <<cliVersion, cliCatalog, cliQuery, cliOffered, cliQuestions,
                   cliIdx, cliAnswers, authCalls, authPc, authResult,
                   authLogins, authDeclined, cliCloned, notCli>>

\* What follows the last answer: the first version logs the answers and
\* returns (part_001 lines 86-87); the second logs them and calls
\* gCloudAuthentification, which issues gcloud auth login (part_000 lines
\* 186-187, 90-92).
afterQuestions ==
    IF cliVersion = "part_001"
    THEN /\ cliPc' = "returned"
         /\ UNCHANGED <<authCalls, authPc>>
    ELSE /\ cliPc' = "auth"
         /\ authCalls' = 1
         /\ authPc' = "login"

\* The template arrives and is parsed; the first question is asked
\* (part_000 lines 179-184, part_001 lines 74-84).
EnvFetched ==
    /\ cliPc = "fetchEnv"
    /\ \E text \in CliTemplates :
           /\ cliQuestions' = questionsOf(cliVersion, text)
           /\ IF questionsOf(cliVersion, text) = <<>>
              THEN afterQuestions
              ELSE /\ cliPc' = "questions"
                   /\ UNCHANGED <<authCalls, authPc>>
    /\ cliIdx' = 1
    /\ UNCHANGED <<cliVersion, cliCatalog, cliQuery, cliOffered, cliSelected,
                   cliAnswers, authResult, authLogins, authDeclined,
                   cliCloned, notCli>>

\* fetchEnvFor fails (part_000 line 179, part_001 line 74).
EnvFetchFailed == cliPc = "fetchEnv" /\ cliFails

\* The user answers the question at cliIdx (part_000 lines 182-184).
AnswerExampleQuestion ==
    /\ cliPc = "questions"
    /\ \E input \in InputSamples :
           cliAnswers' = setKey(cliAnswers, cliQuestions[cliIdx].name,
                                promptAnswer(cliQuestions[cliIdx], input))
    /\ cliIdx' = cliIdx + 1
    /\ IF cliIdx = Len(cliQuestions)
       THEN afterQuestions
       ELSE UNCHANGED <<cliPc, authCalls, authPc>>
    /\ UNCHANGED <<cliVersion, cliCatalog, cliQuery, cliOffered, cliSelected,
                   cliQuestions, authResult, authLogins, authDeclined,
                   cliCloned, notCli>>

\* The invocation of gCloudAuthentification that runs returns value to
\* its caller.  The first invocation is the one startCLI awaits (part_000
\* lines 187-191): on true gCloudCloneGitRepository issues rm -rf, on false
\* startCLI returns.  The value of a later invocation is dropped: its caller
\* (line 104) neither awaits nor returns it.
authReturns(value) ==
    /\ authPc' = "returned"
    /\ IF authCalls = 1
       THEN /\ authResult' = value
            /\ IF value = "true"
               THEN cliPc' = "clone-rm" /\ cliCloned' = "started"
               ELSE cliPc' = "returned" /\ UNCHANGED cliCloned
       ELSE UNCHANGED <<authResult, cliPc, cliCloned>>

\* gcloud auth login succeeds (lines 92-93): the invocation returns true.
LoginSucceeded ==
    /\ authPc = "login"
    /\ authLogins' = authLogins + 1
    /\ authReturns("true")
    /\ UNCHANGED <<cliVersion, cliCatalog, cliQuery, cliOffered, cliSelected,
                   cliQuestions, cliIdx, cliAnswers, authCalls, authDeclined,
                   notCli>>

\* gcloud auth login fails (lines 94-102): the retry confirmation is asked.
LoginFailed ==
    /\ authPc = "login"
    /\ authPc' = "confirm"
    /\ UNCHANGED <<cliVersion, cliPc, cliCatalog, cliQuery, cliOffered,
                   cliSelected, cliQuestions, cliIdx, cliAnswers, authCalls,
                   authResult, authLogins, authDeclined, cliCloned, notCli>>

\* The user accepts the retry (lines 103-104, 110): gCloudAuthentification
\* is called again, which issues gcloud auth login once more, and the
\* invocation that called it goes on to `return false` at once.
RetryAccepted ==
    /\ authPc = "confirm"
    /\ authCalls < MaxAttempts
    /\ authCalls' = authCalls + 1
    /\ authPc' = "login"
    /\ IF authCalls = 1
       THEN authResult' = "false" /\ cliPc' = "returned"
       ELSE UNCHANGED <<authResult, cliPc>>
    /\ UNCHANGED <<cliVersion, cliCatalog, cliQuery, cliOffered, cliSelected,
                   cliQuestions, cliIdx, cliAnswers, authLogins, authDeclined,
                   cliCloned, notCli>>

\* The user declines the retry (lines 105-108): the invocation returns
\* false.
RetryDeclined ==
    /\ authPc = "confirm"
    /\ authDeclined' = TRUE
    /\ authReturns("false")
    /\ UNCHANGED <<cliVersion, cliCatalog, cliQuery, cliOffered, cliSelected,
                   cliQuestions, cliIdx, cliAnswers, authCalls, authLogins,
                   notCli>>

\* gCloudCloneGitRepository, lines 115-116: rm -rf is done, git clone is
\* issued.
RemoveDone ==
    /\ cliPc = "clone-rm"
    /\ cliPc' = "clone-git"
    /\ UNCHANGED <<cliVersion, cliCatalog, cliQuery, cliOffered, cliSelected,
                   cliQuestions, cliIdx, cliAnswers, authCalls, authPc,
                   authResult, authLogins, authDeclined, cliCloned, notCli>>

\* What ends gCloudCloneGitRepository and with it startCLI (lines 119-123,
\* 190-196).
cloneEnds(outcome) ==
    /\ cliCloned' = outcome
    /\ cliPc' = "returned"
    /\ UNCHANGED <<cliVersion, cliCatalog, cliQuery, cliOffered, cliSelected,
                   cliQuestions, cliIdx, cliAnswers, authCalls, authPc,
                   authResult, authLogins, authDeclined, notCli>>

\* git clone succeeds (lines 116-119).
RepositoryCloned == cliPc = "clone-git" /\ cloneEnds("ok")

\* rm -rf or git clone fails (lines 120-123).
CloneFailed == cliPc \in {"clone-rm", "clone-git"} /\ cloneEnds("failed")

NextCli ==
    \/ CatalogArrived
    \/ CatalogFetchFailed
    \/ TypeQuery
    \/ PickExample
    \/ EnvFetched
    \/ EnvFetchFailed
    \/ AnswerExampleQuestion
    \/ LoginSucceeded
    \/ LoginFailed
    \/ RetryAccepted
    \/ RetryDeclined
    \/ RemoveDone
    \/ RepositoryCloned
    \/ CloneFailed

SpecCli == InitCli /\ [][NextCli]_vars

\* s contains q as a substring when case is ignored.
ContainsIgnoreCase(s, q) ==
    \E i \in 0..(Len(s) - Len(q)) :
        \A j \in 1..Len(q) : lowerChar(s[i + j]) = lowerChar(q[j])

\* The entries the fuzzy selector is to offer for a query, in catalog order.
MatchingEntries(githubProjects, q) ==
    SelectSeq(githubProjects,
              LAMBDA e : \/ ContainsIgnoreCase(e.repository, q)
                         \/ ContainsIgnoreCase(e.description, q))

MatchingNames(names, q) ==
    SelectSeq(names, LAMBDA n : ContainsIgnoreCase(n, q))

OfferedAsClaimed ==
    IF cliVersion = "part_001"
    THEN cliOffered = MatchingNames(githubProjectNames, cliQuery)
    ELSE cliOffered =
             [i \in 1..Len(MatchingEntries(cliCatalog, cliQuery)) |->
                 renderProject(MatchingEntries(cliCatalog, cliQuery)[i])]

\* C12: for every catalog and every query the example prompt offers exactly
\* the entries whose key or description contains the query as a
\* case-insensitive substring, in catalog order.
C12_OffersCaseInsensitiveMatches == cliPc = "select" => OfferedAsClaimed

\* The part of C12 the code satisfies: the source of part_000 (and the
\* identical source of selectSipgateIOProject) offers exactly those entries.
C12_SecondVersionIgnoresCase ==
    (cliPc = "select" /\ cliVersion = "part_000") => OfferedAsClaimed

\* What the first version does instead: it offers the names that contain
\* the query as typed.
C12_FirstVersionMatchesCase ==
    (cliPc = "select" /\ cliVersion = "part_001") =>
        cliOffered = SelectSeq(githubProjectNames,
                               LAMBDA n : includes(n, cliQuery))

\* The prompts that wait for the user, and the commands and fetches that
\* have been issued and have not resolved.
ActivePrompts ==
    (IF cliPc \in {"select", "questions"} THEN 1 ELSE 0)
        + (IF authPc = "confirm" THEN 1 ELSE 0)

CommandsInFlight ==
    (IF cliPc \in {"fetchList", "fetchEnv", "clone-rm", "clone-git"}
     THEN 1 ELSE 0)
        + (IF authPc = "login" THEN 1 ELSE 0)

\* C17: at every point of a run at most one prompt is active and at most
\* one command is in flight, and the flow that issued a command does not
\* go on or return before the command has resolved: once startCLI has
\* returned, nothing it started is still running; the retry path of
\* gCloudAuthentification included.
C17_OneAtATimeAndAwaited ==
    /\ ActivePrompts + CommandsInFlight <= 1
    /\ cliPc \in {"returned", "error"} =>
           ActivePrompts + CommandsInFlight = 0

\* The part of C17 the code satisfies: never two prompts or commands at
\* once, and outside the retry path nothing outlives startCLI.
C17_OneAtATime ==
    /\ ActivePrompts + CommandsInFlight <= 1
    /\ (cliPc \in {"returned", "error"} /\ authCalls <= 1) =>
           ActivePrompts + CommandsInFlight = 0

\* C19: the gCloudAuthentification startCLI awaits returns true exactly when
\* a login command has succeeded, a retry after a failed first attempt
\* included; it returns false only when the user declined a retry; and the
\* repository is cloned only after a successful authentication.
C19_TrueExactlyWhenLoggedIn ==
    /\ authResult = "true" => authLogins >= 1
    /\ authLogins >= 1 => authResult = "true"
    /\ authResult = "false" => authDeclined
    /\ cliCloned # "no" => (authResult = "true" /\ authLogins >= 1)

\* What the code does instead: true exactly when the first login command
\* succeeded, false as soon as the user answers the first retry
\* confirmation, whatever the answer and whatever the retry brings.
C19_TrueOnlyOnFirstAttempt ==
    /\ authResult = "true" <=> (authCalls = 1 /\ authLogins = 1)
    /\ authResult = "false" <=>
           (authCalls >= 2 \/ (authPc = "returned" /\ authDeclined))
    /\ cliCloned # "no" => authResult = "true"

(***************************************************************************)
(* selectLocalProject                                                      *)
(***************************************************************************)

\* response.repoPath.replace(/\/$/, ''), line 272.
removeTrailingSlash(s) ==
    IF s # <<>> /\ s[Len(s)] = "/" THEN SubSeq(s, 1, Len(s) - 1) ELSE s

\* The file system selectLocalProject looks at: a directory d without
\* app.yaml and a directory p with one; nothing else exists.
ExistingPaths ==
    { <<"d">>, <<"p">>, <<"p", "/", "a", "p", "p", ".", "y", "a", "m", "l">> }

existsSync(path) == path \in ExistingPaths

\* `${cleanedPath}/app.yaml`, line 279.
appYamlOf(cleanedPath) ==
    cleanedPath \o <<"/", "a", "p", "p", ".", "y", "a", "m", "l">>

\* An invocation that has shown its prompt and waits for the user.
PromptFrame == [path |-> <<>>, pc |-> "prompt"]

\* frames with its top frame waiting at `await selectLocalProject()` (pc
\* "afterExists": line 276, "afterYaml": line 283) and a new invocation on
\* top of it.
callAgain(frames, cleanedPath, pc) ==
    Append(SubSeq(frames, 1, Len(frames) - 1), [path |-> cleanedPath, pc |-> pc])
        \o <<PromptFrame>>

\* An invocation returns to the frames below it.  Its value is dropped by a
\* caller (lines 276, 283 use no result): a caller that waited at line 276
\* goes on to the app.yaml test of its own cleanedPath and either calls
\* again or returns its own cleanedPath; a caller that waited at line 283
\* returns its own cleanedPath (line 286).  When no caller is left the value
\* is the result of the run.
RECURSIVE unwind(_, _)
unwind(frames, value) ==
    IF frames = <<>>
    THEN [frames |-> <<>>, result |-> StringValue(value), messages |-> 0]
    ELSE LET caller == frames[Len(frames)]
         IN  IF caller.pc = "afterExists" /\ ~existsSync(appYamlOf(caller.path))
             THEN [frames   |-> callAgain(frames, caller.path, "afterYaml"),
                   result   |-> Undefined,
                   messages |-> 1]
             ELSE unwind(SubSeq(frames, 1, Len(frames) - 1), caller.path)

(***************************************************************************)
(* Specification SpecLocal: one run of selectLocalProject, over the paths  *)
(* of PathInputs, with at most MaxInvalid invalid entries by the user.     *)
(***************************************************************************)

MaxInvalid == 2

\* What the user enters: a missing path, a directory without app.yaml and a
\* repository, each with and without a trailing slash.
PathInputs ==
    { <<"r">>, <<"r", "/">>, <<"d">>, <<"d", "/">>, <<"p">>, <<"p", "/">> }

\* An entry that names an existing directory holding an app.yaml.
IsRepository(input) ==
    /\ existsSync(removeTrailingSlash(input))
    /\ existsSync(appYamlOf(removeTrailingSlash(input)))

InvalidEntries(entered) ==
    {i \in 1..Len(entered) : ~IsRepository(entered[i])}

InitLocal ==
    /\ locFrames = <<PromptFrame>>
    /\ locEntered = <<>>
    /\ locWarnings = 0
    /\ locPrompts = 1
    /\ locResult = Undefined
    /\ IdleParse /\ IdleStore /\ IdleTabs /\ IdleWiz /\ IdleSel /\ IdleCli

\* Lines 265-286: the user answers the prompt of the invocation on top.
PathEntered ==
    /\ locFrames # <<>>
    /\ locFrames[Len(locFrames)].pc = "prompt"
    /\ \E input \in PathInputs :
         LET cleanedPath == removeTrailingSlash(input)
             returned == unwind(SubSeq(locFrames, 1, Len(locFrames) - 1),
                                cleanedPath)
         IN  /\ IsRepository(input)
                 \/ Cardinality(InvalidEntries(locEntered)) < MaxInvalid
             /\ locEntered' = Append(locEntered, input)
             /\ IF ~existsSync(cleanedPath)
                THEN /\ locFrames' = callAgain(locFrames, cleanedPath,
                                               "afterExists")
                     /\ locWarnings' = locWarnings + 1
                     /\ locPrompts' = locPrompts + 1
                     /\ UNCHANGED locResult
                ELSE IF ~existsSync(appYamlOf(cleanedPath))
                THEN /\ locFrames' = callAgain(locFrames, cleanedPath,
                                               "afterYaml")
                     /\ locWarnings' = locWarnings + 1
                     /\ locPrompts' = locPrompts + 1
                     /\ UNCHANGED locResult
                ELSE /\ locFrames' = returned.frames
                     /\ locWarnings' = locWarnings + returned.messages
                     /\ locPrompts' = locPrompts + returned.messages
                     /\ locResult' = returned.result
    /\ UNCHANGED notLoc

NextLocal == PathEntered

SpecLocal == InitLocal /\ [][NextLocal]_vars

\* selectLocalProject has returned to its original caller.
LocalReturned == locFrames = <<>> /\ locResult.kind = "string"

\* C18: selectLocalProject returns only a path that exists and holds an
\* app.yaml; after invalid entries followed by a valid one the value
\* returned to the original caller is the last path entered (the valid one),
\* and each invalid entry has caused exactly one more prompt.
C18_ReturnsLastValidPath ==
    LocalReturned =>
        /\ IsRepository(locResult.value)
        /\ locResult.value = removeTrailingSlash(locEntered[Len(locEntered)])
        /\ locPrompts = 1 + Cardinality(InvalidEntries(locEntered))

\* What the code does instead: the original caller gets the first path
\* entered, valid or not, and a missing path has caused two more prompts
\* (lines 276 and 283), a directory without app.yaml one.
MissingEntries(entered) ==
    {i \in 1..Len(entered) : ~existsSync(removeTrailingSlash(entered[i]))}

C18_ReturnsFirstPath ==
    LocalReturned =>
        /\ locResult.value = removeTrailingSlash(locEntered[1])
        /\ locPrompts = 1 + Cardinality(InvalidEntries(locEntered))
                          + Cardinality(MissingEntries(locEntered))
        /\ IsRepository(locEntered[Len(locEntered)])

\* The retry path of selectLocalProject keeps one prompt at a time: the
\* invocation on top waits at its prompt, every one below waits for the
\* invocation it called.
C17_LocalRetryAwaited ==
    \A i \in 1..Len(locFrames) :
        locFrames[i].pc = "prompt" <=> i = Len(locFrames)

(***************************************************************************)
(* The wizard: answers and questions, and termination                      *)
(***************************************************************************)

\* The questions of the current parse that carry a given name.
QuestionsNamed(name) ==
    {j \in 1..Len(wzQuestions) : wzQuestions[j].name = name}

\* C15: in every pass, every key of the collected answers is the name of
\* exactly one question of the same parse, and every question contributes
\* an answer of its own; also for a template in which two assignment lines
\* use one name.
C15_AnswersMatchQuestions ==
    wzPc \in {"filename", "review", "overwrite", "done"} =>
        /\ \A i \in 1..Len(wzAnswers) :
               Cardinality(QuestionsNamed(wzAnswers[i].key)) = 1
        /\ Len(wzAnswers) = Len(wzQuestions)

\* What the code does instead: every key is the name of at least one
\* question of the same parse and every name has one answer; questions that
\* share a name share one answer.
C15_OneAnswerPerName ==
    wzPc \in {"filename", "review", "overwrite", "done"} =>
        /\ \A i \in 1..Len(wzAnswers) :
               Cardinality(QuestionsNamed(wzAnswers[i].key)) >= 1
        /\ \A j \in 1..Len(wzQuestions) :
               Cardinality({i \in 1..Len(wzAnswers) :
                               wzAnswers[i].key = wzQuestions[j].name}) = 1

(***************************************************************************)
(* Specification SpecWizardLive: the wizard with no bound on the declined  *)
(* passes.  Passes beyond MaxPasses are counted as MaxPasses, so a run may *)
(* decline for ever.  The user answers every prompt (weak fairness of the  *)
(* answers) and, being asked again and again, eventually accepts (strong   *)
(* fairness of the two acceptances): the runs the claim speaks of.         *)
(***************************************************************************)

\* `return interactivelyGenerateConfig()` once MaxPasses passes were
\* counted: the same new invocation, the count stays.
enterWizardUncounted ==
    /\ wzQuestions' = extractQuestions(readExampleConfig)
    /\ wzPc' = firstPrompt(extractQuestions(readExampleConfig))
    /\ wzIdx' = 1
    /\ wzAnswers' = <<>>
    /\ wzFilename' = ""
    /\ wzConfirm' = FALSE
    /\ wzPass' = wzPass

\* Lines 76-78 with confirm = false, in a pass that is no longer counted.
ReviewDeclinedAgain ==
    /\ wzPc = "review"
    /\ wzPass = MaxPasses
    /\ wzLastEvent' = "review-no"
    /\ enterWizardUncounted
    /\ UNCHANGED <<wzTemplate, files, wzWrites, wzWarnings, wzResult, notWiz>>

\* Lines 91-94 with confirmoverwrite = false, in a pass that is no longer
\* counted; the warnings are counted up to MaxPasses.
OverwriteDeclinedAgain ==
    /\ wzPc = "overwrite"
    /\ wzPass = MaxPasses
    /\ wzLastEvent' = "overwrite-no"
    /\ wzWarnings' = IF wzWarnings < MaxPasses
                     THEN wzWarnings + 1 ELSE wzWarnings
    /\ enterWizardUncounted
    /\ UNCHANGED <<wzTemplate, files, wzWrites, wzResult, notWiz>>

NextWizardLive ==
    \/ AnswerQuestion
    \/ SkipAnswered
    \/ ChooseFilename
    \/ ReviewAccepted
    \/ ReviewDeclined
    \/ ReviewDeclinedAgain
    \/ OverwriteAccepted
    \/ OverwriteDeclined
    \/ OverwriteDeclinedAgain

SpecWizardLive ==
    /\ InitWizard
    /\ [][NextWizardLive]_vars
    /\ WF_vars(AnswerQuestion)
    /\ WF_vars(SkipAnswered)
    /\ WF_vars(ChooseFilename)
    /\ SF_vars(ReviewAccepted)
    /\ SF_vars(OverwriteAccepted)

\* C14: every run of the wizard in which the user eventually accepts the
\* review (and the overwrite, when the destination exists) reaches the
\* terminal state, where the configuration file holds the answers of the
\* accepted pass and those answers are returned; any number of declined
\* passes may come before, and a step that declines writes no file.
C14_AcceptingRunTerminates ==
    /\ <>(wzPc = "done")
    /\ [](wzPc = "done" =>
              /\ wzWrites >= 1
              /\ files[configPath(wzFilename)]
                     = [exists |-> TRUE, content |-> buildEnv(wzAnswers)]
              /\ wzResult = resultConfigOf(wzAnswers))
    /\ [][ (wzLastEvent' \in {"review-no", "overwrite-no"}
            /\ wzPc \in {"review", "overwrite"})
           => (files' = files /\ wzWrites' = wzWrites) ]_vars

\* C14 witness: the run was declined in MaxPasses passes and more, once at
\* the overwrite confirmation, and has ended with the file written over the
\* old one.
C14_Witness ==
    /\ wzPc = "done"
    /\ wzPass = MaxPasses
    /\ wzWarnings >= 1
    /\ wzLastEvent = "overwrite-yes"
    /\ wzWrites >= 1
    /\ wzAnswers # <<>>
    /\ files[configPath(wzFilename)].content = buildEnv(wzAnswers)

====
